---- MODULE Spec2Model ----
(***************************************************************************)
(* Model of src/main.py: the OCR PDF extractor pipeline.  One processing   *)
(* run of the `if uploaded_file:` block is a linear state machine; every   *)
(* external library call (fitz, pdfplumber, pdf2image, pytesseract, fpdf,  *)
(* os.unlink) is a step whose outcome (value or exception) is chosen       *)
(* nondeterministically.  Text is a sequence of one-character strings.     *)
(***************************************************************************)
EXTENDS Integers, Sequences, FiniteSets, TLC

(* ---------------------------- bounds ----------------------------------- *)
MaxPages == 2

(* ------------------------ program constants ---------------------------- *)
Threshold == 100

(* ---------------------------- text helpers ----------------------------- *)
Whitespace == {" ", "\n", "\t", "\r"}

RECURSIVE lstrip(_)
lstrip(s) ==
    IF s = <<>> THEN s
    ELSE IF Head(s) \in Whitespace THEN lstrip(Tail(s)) ELSE s

RECURSIVE rstrip(_)
rstrip(s) ==
    IF s = <<>> THEN s
    ELSE IF s[Len(s)] \in Whitespace THEN rstrip(SubSeq(s, 1, Len(s) - 1)) ELSE s

strip(s) == rstrip(lstrip(s))

Rep(c, n) == [k \in 1..n |-> c]

Digits == <<"0", "1", "2", "3", "4", "5", "6", "7", "8", "9">>

RECURSIVE str(_)
str(n) ==
    IF n < 10 THEN <<Digits[n + 1]>>
    ELSE str(n \div 10) \o <<Digits[(n % 10) + 1]>>

MarkerHead == <<"\n", "-", "-", "-", " ", "P", "a", "g", "e", " ">>
MarkerTail == <<" ", "-", "-", "-", "\n">>

\* variant: the marker numbered with the 0-based index itself
PageMarkerZeroBased(i) == MarkerHead \o str(i) \o MarkerTail

\* f"\n--- Page {i+1} ---\n" for the 0-based enumerate index i
PageMarker(i) == MarkerHead \o str(i + 1) \o MarkerTail

(* ------------------------------ inputs --------------------------------- *)
\* a character outside latin-1
NonLatin == "U+03BB"
NonLatin1 == {NonLatin}

\* what page.extract_text() may return for one page (None is mapped to "")
PageTexts ==
    { <<>>,
      <<" ", "\n">>,
      <<"a", "b">>,
      <<"h", "i", "\n", NonLatin, "\n", "\n", "y", "o">>,
      Rep("a", Threshold - 16),
      Rep("a", Threshold - 15),
      Rep("a", Threshold - 15) \o <<" ">>,
      Rep("a", Threshold - 14) }

\* what pytesseract.image_to_string may return for one image
OCRTexts ==
    { <<>>,
      <<" ", "\n">>,
      <<"o", "k", "\n">>,
      <<NonLatin, "\n", "z">> }

FileNames ==
    { <<"a", ".", "p", "d", "f">>,
      <<NonLatin, ".", "p", "d", "f">> }

TitlePrefix ==
    <<"E", "x", "t", "r", "a", "c", "t", "e", "d", " ", "f", "r", "o", "m", " ">>

(* -------------------------- create_pdf_from_text ----------------------- *)
Placeholder ==
    <<"[", "C", "o", "n", "t", "e", "n", "t", " ", "w", "i", "t", "h", " ",
      "s", "p", "e", "c", "i", "a", "l", " ", "c", "h", "a", "r", "a", "c",
      "t", "e", "r", "s", " ", "r", "e", "m", "o", "v", "e", "d", "]">>

\* the renderer (cell / multi_cell) raises on text it cannot encode
Renderable(s) == \A k \in 1..Len(s) : s[k] \notin NonLatin1

FirstNewline(s) ==
    IF \E k \in 1..Len(s) : s[k] = "\n"
    THEN CHOOSE k \in 1..Len(s) : s[k] = "\n" /\ \A j \in 1..(k - 1) : s[j] # "\n"
    ELSE 0

\* text.split('\n')
RECURSIVE split(_)
split(s) ==
    LET k == FirstNewline(s)
    IN IF k = 0 THEN <<s>>
       ELSE <<SubSeq(s, 1, k - 1)>> \o split(SubSeq(s, k + 1, Len(s)))

\* the body loop: one rendered paragraph per non-empty line
RECURSIVE RenderLines(_)
RenderLines(lines) ==
    IF lines = <<>> THEN <<>>
    ELSE LET line == Head(lines)
         IN (IF Len(line) > 0
             THEN (IF Renderable(line) THEN <<line>> ELSE <<Placeholder>>)
             ELSE <<>>) \o RenderLines(Tail(lines))

PdfHeader == <<"%", "P", "D", "F">>

create_pdf_from_text(text, title) ==
    IF ~Renderable(title)
    THEN [raised |-> TRUE, buf |-> <<>>]
    ELSE [raised |-> FALSE,
          buf |-> <<PdfHeader, title>> \o RenderLines(split(text))]

(* ------------------------------ state ---------------------------------- *)
VARIABLES
    pc,                 \* position in the script
    fallback_all_pages, \* sidebar checkbox "Force OCR on all pages"
    file_name,          \* uploaded_file.name
    numPages,           \* number of pages of the uploaded document
    extracted_text,     \* the accumulator
    page_count,         \* result of the page count probe
    i,                  \* loop index of the running loop
    numImages,          \* len(images)
    tmpExists,          \* the upload's temporary file is on disk
    tmpCreated,         \* number of times the temporary file was created
    unlinkCalls,        \* number of times os.unlink(tmp_pdf_path) was executed
    unlinkFailed,       \* os.unlink raised
    testFileExists,     \* the preflight's test.pdf is on disk
    poppler_installed,  \* return value of is_poppler_installed (FALSE before the call)
    nativeAcc,          \* accumulator as native extraction left it
    nativeState,        \* "skipped", "running", "finished", "raised"
    sections,           \* what was appended to the accumulator since its last reset
    trace,              \* external calls made: preflight, rasterize, ocr
    messages,           \* status channel
    outcome,            \* "none", "result", "failure"
    pdf_result          \* what create_pdf_from_text produced

vars == <<pc, fallback_all_pages, file_name, numPages, extracted_text,
          page_count, i, numImages, tmpExists, tmpCreated, unlinkCalls,
          unlinkFailed, testFileExists, poppler_installed, nativeAcc,
          nativeState, sections, trace, messages, outcome, pdf_result>>

Msg(kind, page) == [kind |-> kind, page |-> page]
Call(op, page, ok, text) == [op |-> op, page |-> page, ok |-> ok, text |-> text]
Section(src, page, text) == [src |-> src, page |-> page, text |-> text]

NoPdf == [called |-> FALSE, raised |-> FALSE, buf |-> <<>>]

Init ==
    /\ pc = "upload"
    /\ fallback_all_pages \in BOOLEAN
    /\ file_name \in FileNames
    /\ numPages \in 1..MaxPages
    /\ extracted_text = <<>>
    /\ page_count = 0
    /\ i = 0
    /\ numImages = 0
    /\ tmpExists = FALSE
    /\ tmpCreated = 0
    /\ unlinkCalls = 0
    /\ unlinkFailed = FALSE
    /\ testFileExists = FALSE
    /\ poppler_installed = FALSE
    /\ nativeAcc = <<>>
    /\ nativeState = "skipped"
    /\ sections = <<>>
    /\ trace = <<>>
    /\ messages = <<>>
    /\ outcome = "none"
    /\ pdf_result = NoPdf

(* ------------------------------ actions -------------------------------- *)
\* lines 101-111: read the upload and save it to a temporary file
SaveTemp ==
    /\ pc = "upload"
    /\ extracted_text' = <<>>
    /\ page_count' = 0
    /\ tmpExists' = TRUE
    /\ tmpCreated' = tmpCreated + 1
    /\ messages' = Append(messages, Msg("processing", 0))
    /\ pc' = "probe"
    /\ UNCHANGED <<fallback_all_pages, file_name, numPages, i, numImages,
                   unlinkCalls, unlinkFailed, testFileExists, poppler_installed,
                   nativeAcc, nativeState, sections, trace, outcome, pdf_result>>

\* lines 113-122: page count probe, then the force-OCR test
PageCountProbe ==
    /\ pc = "probe"
    /\ \E ok \in BOOLEAN :
         IF ok
         THEN /\ page_count' = numPages
              /\ messages' = Append(messages, Msg("page_count", numPages))
         ELSE /\ page_count' = page_count
              /\ messages' = Append(messages, Msg("probe_warning", 0))
    /\ IF ~fallback_all_pages
       THEN /\ pc' = "native"
            /\ nativeState' = "running"
       ELSE /\ pc' = "decide"
            /\ nativeState' = nativeState
    /\ i' = 0
    /\ UNCHANGED <<fallback_all_pages, file_name, numPages, extracted_text,
                   numImages, tmpExists, tmpCreated, unlinkCalls, unlinkFailed,
                   testFileExists, poppler_installed, nativeAcc, sections,
                   trace, outcome, pdf_result>>

\* lines 127-130: one iteration of the pdfplumber page loop
NativePage ==
    /\ pc = "native"
    /\ i < numPages
    /\ \E page_text \in PageTexts :
         IF strip(page_text) # <<>>
         THEN /\ extracted_text' = extracted_text \o PageMarker(i) \o page_text
              /\ sections' = Append(sections, Section("native", i + 1, page_text))
         ELSE /\ extracted_text' = extracted_text
              /\ sections' = sections
    /\ i' = i + 1
    /\ UNCHANGED <<pc, fallback_all_pages, file_name, numPages, page_count,
                   numImages, tmpExists, tmpCreated, unlinkCalls, unlinkFailed,
                   testFileExists, poppler_installed, nativeAcc, nativeState,
                   trace, messages, outcome, pdf_result>>

\* lines 132-133: the loop is over, the success message
NativeFinish ==
    /\ pc = "native"
    /\ i = numPages
    /\ messages' = IF Len(strip(extracted_text)) > Threshold
                   THEN Append(messages, Msg("native_success", 0))
                   ELSE messages
    /\ nativeAcc' = extracted_text
    /\ nativeState' = "finished"
    /\ pc' = "decide"
    /\ UNCHANGED <<fallback_all_pages, file_name, numPages, extracted_text,
                   page_count, i, numImages, tmpExists, tmpCreated, unlinkCalls,
                   unlinkFailed, testFileExists, poppler_installed, sections,
                   trace, outcome, pdf_result>>

\* lines 134-136: pdfplumber.open or a page's extract_text raises
NativeRaise ==
    /\ pc = "native"
    /\ i <= numPages
    /\ messages' = Append(messages, Msg("native_warning", 0))
    /\ extracted_text' = <<>>
    /\ sections' = <<>>
    /\ nativeAcc' = <<>>
    /\ nativeState' = "raised"
    /\ pc' = "decide"
    /\ UNCHANGED <<fallback_all_pages, file_name, numPages, page_count, i,
                   numImages, tmpExists, tmpCreated, unlinkCalls, unlinkFailed,
                   testFileExists, poppler_installed, trace, outcome, pdf_result>>

\* variant: the fallback condition with a threshold above the success test's
NeedsOCRWrongThreshold(text, force) == Len(strip(text)) <= Threshold + 1 \/ force

\* line 139: the fallback condition
NeedsOCR(text, force) == Len(strip(text)) < Threshold \/ force

Decide ==
    /\ pc = "decide"
    /\ IF NeedsOCR(extracted_text, fallback_all_pages)
       THEN /\ messages' = Append(messages, Msg("switch_ocr", 0))
            /\ pc' = "preflight"
       ELSE /\ messages' = messages
            /\ pc' = "cleanup"
    /\ UNCHANGED <<fallback_all_pages, file_name, numPages, extracted_text,
                   page_count, i, numImages, tmpExists, tmpCreated, unlinkCalls,
                   unlinkFailed, testFileExists, poppler_installed, nativeAcc,
                   nativeState, sections, trace, outcome, pdf_result>>

\* lines 58-69: outcomes of is_poppler_installed
\*   "open_fail"    the import or open(test_file, "wb") raises
\*   "convert_fail" convert_from_bytes raises
\*   "remove_fail"  os.remove raises
\*   "ok"           every statement succeeds
PreflightOutcomes == {"open_fail", "convert_fail", "remove_fail", "ok"}

is_poppler_installed(o, fileBefore) ==
    [ret  |-> (o = "ok"),
     file |-> IF o = "open_fail" THEN fileBefore
              ELSE IF o = "ok" THEN FALSE
              ELSE TRUE]

\* variant: the accumulator is not reset before OCR
KeepForOCR(text) == text

\* line 159: extracted_text = "" before OCR
ResetForOCR(text) == <<>>

\* lines 143-159: preflight, hard stop or reset
Preflight ==
    /\ pc = "preflight"
    /\ \E o \in PreflightOutcomes :
         LET r == is_poppler_installed(o, testFileExists)
         IN /\ poppler_installed' = r.ret
            /\ testFileExists' = r.file
            /\ trace' = Append(trace, Call("preflight", 0, r.ret, <<>>))
            /\ IF ~r.ret
               THEN /\ messages' = Append(messages, Msg("hard_stop", 0))
                    /\ extracted_text' = extracted_text
                    /\ sections' = sections
                    /\ pc' = "cleanup"
               ELSE /\ messages' = messages
                    /\ extracted_text' = ResetForOCR(extracted_text)
                    /\ sections' = IF ResetForOCR(extracted_text) = <<>>
                                   THEN <<>> ELSE sections
                    /\ pc' = "rasterize"
    /\ UNCHANGED <<fallback_all_pages, file_name, numPages, page_count, i,
                   numImages, tmpExists, tmpCreated, unlinkCalls, unlinkFailed,
                   nativeAcc, nativeState, outcome, pdf_result>>

\* lines 161-167 and 180-181: rasterize the upload
Rasterize ==
    /\ pc = "rasterize"
    /\ \E ok \in BOOLEAN :
         /\ trace' = Append(trace, Call("rasterize", 0, ok, <<>>))
         /\ IF ok
            THEN /\ numImages' = numPages
                 /\ messages' = Append(messages, Msg("raster_success", numPages))
                 /\ pc' = "ocr"
            ELSE /\ numImages' = numImages
                 /\ messages' = Append(messages, Msg("ocr_processing_error", 0))
                 /\ pc' = "cleanup"
    /\ i' = 0
    /\ UNCHANGED <<fallback_all_pages, file_name, numPages, extracted_text,
                   page_count, tmpExists, tmpCreated, unlinkCalls, unlinkFailed,
                   testFileExists, poppler_installed, nativeAcc, nativeState,
                   sections, outcome, pdf_result>>

\* variant: a page's OCR error ends the loop
AbortAfterOCRError(k) == numImages

\* lines 175-176: the loop goes on with the next image after a page's OCR raised
NextAfterOCRError(k) == k + 1

\* lines 169-176: one iteration of the OCR loop
OCRPage ==
    /\ pc = "ocr"
    /\ i < numImages
    /\ \/ \E text \in OCRTexts :
            /\ trace' = Append(trace, Call("ocr", i + 1, TRUE, text))
            /\ extracted_text' = extracted_text \o PageMarker(i) \o text
            /\ sections' = Append(sections, Section("ocr", i + 1, text))
            /\ messages' = Append(messages, Msg("ocr_info", i + 1))
            /\ i' = i + 1
       \/ /\ trace' = Append(trace, Call("ocr", i + 1, FALSE, <<>>))
          /\ messages' = Append(messages, Msg("ocr_error", i + 1))
          /\ i' = NextAfterOCRError(i)
          /\ UNCHANGED <<extracted_text, sections>>
    /\ UNCHANGED <<pc, fallback_all_pages, file_name, numPages, page_count,
                   numImages, tmpExists, tmpCreated, unlinkCalls, unlinkFailed,
                   testFileExists, poppler_installed, nativeAcc, nativeState,
                   outcome, pdf_result>>

\* line 178: the loop is over
OCRDone ==
    /\ pc = "ocr"
    /\ i = numImages
    /\ pc' = "cleanup"
    /\ UNCHANGED <<fallback_all_pages, file_name, numPages, extracted_text,
                   page_count, i, numImages, tmpExists, tmpCreated, unlinkCalls,
                   unlinkFailed, testFileExists, poppler_installed, nativeAcc,
                   nativeState, sections, trace, messages, outcome, pdf_result>>

\* variant: the temporary file is never unlinked
CleanupSkipped ==
    /\ pc = "cleanup"
    /\ pc' = "present"
    /\ UNCHANGED <<fallback_all_pages, file_name, numPages, extracted_text,
                   page_count, i, numImages, tmpExists, tmpCreated, unlinkCalls,
                   unlinkFailed, testFileExists, poppler_installed, nativeAcc,
                   nativeState, sections, trace, messages, outcome, pdf_result>>

\* lines 183-187: delete the temporary file, ignoring a failure
Cleanup ==
    /\ pc = "cleanup"
    /\ unlinkCalls' = unlinkCalls + 1
    /\ \E ok \in BOOLEAN :
         /\ tmpExists' = IF ok THEN FALSE ELSE tmpExists
         /\ unlinkFailed' = ~ok
    /\ pc' = "present"
    /\ UNCHANGED <<fallback_all_pages, file_name, numPages, extracted_text,
                   page_count, i, numImages, tmpCreated, testFileExists,
                   poppler_installed, nativeAcc, nativeState, sections, trace,
                   messages, outcome, pdf_result>>

\* lines 189-208: show the result or the terminal failure
Present ==
    /\ pc = "present"
    /\ IF strip(extracted_text) # <<>>
       THEN LET r == create_pdf_from_text(extracted_text, TitlePrefix \o file_name)
            IN /\ outcome' = "result"
               /\ pdf_result' = [called |-> TRUE, raised |-> r.raised, buf |-> r.buf]
               /\ messages' = IF r.raised
                              THEN messages \o <<Msg("complete", 0), Msg("pdf_error", 0)>>
                              ELSE Append(messages, Msg("complete", 0))
       ELSE /\ outcome' = "failure"
            /\ pdf_result' = pdf_result
            /\ messages' = Append(messages, Msg("failed", 0))
    /\ pc' = "done"
    /\ UNCHANGED <<fallback_all_pages, file_name, numPages, extracted_text,
                   page_count, i, numImages, tmpExists, tmpCreated, unlinkCalls,
                   unlinkFailed, testFileExists, poppler_installed, nativeAcc,
                   nativeState, sections, trace>>

Next ==
    \/ SaveTemp
    \/ PageCountProbe
    \/ NativePage
    \/ NativeFinish
    \/ NativeRaise
    \/ Decide
    \/ Preflight
    \/ Rasterize
    \/ OCRPage
    \/ OCRDone
    \/ Cleanup
    \/ Present

Spec == Init /\ [][Next]_vars

(* --------------------------- derived views ----------------------------- *)
Idx(op) == {k \in 1..Len(trace) : trace[k].op = op}

IsOp(op) == LET Test(c) == c.op = op IN SelectSeq(trace, Test)

OCRCalls == IsOp("ocr")

RasterOK == \E k \in Idx("rasterize") : trace[k].ok

OCRErrors == LET Test(m) == m.kind = "ocr_error" IN SelectSeq(messages, Test)

FailedOCRCalls == LET Test(c) == c.op = "ocr" /\ ~c.ok IN SelectSeq(trace, Test)

IsSubstring(a, b) ==
    \E k \in 0..(Len(b) - Len(a)) : SubSeq(b, k + 1, k + Len(a)) = a

IsDigit(c) == \E d \in 1..Len(Digits) : Digits[d] = c

DigitValue(c) == (CHOOSE d \in 1..Len(Digits) : Digits[d] = c) - 1

RECURSIVE ParseNat(_)
ParseNat(ds) ==
    IF Len(ds) = 1 THEN DigitValue(ds[1])
    ELSE 10 * ParseNat(SubSeq(ds, 1, Len(ds) - 1)) + DigitValue(ds[Len(ds)])

\* number of digit characters of s starting at position k
RECURSIVE DigitRun(_, _)
DigitRun(s, k) ==
    IF k <= Len(s) /\ IsDigit(s[k]) THEN 1 + DigitRun(s, k + 1) ELSE 0

\* the sequence p stands in s at position k
MatchesAt(s, k, p) ==
    /\ k + Len(p) - 1 <= Len(s)
    /\ SubSeq(s, k, k + Len(p) - 1) = p

\* a marker "\n--- Page <n> ---\n" stands in s at position k
MarkerAt(s, k) ==
    LET d == k + Len(MarkerHead)
        n == DigitRun(s, d)
    IN /\ MatchesAt(s, k, MarkerHead)
       /\ n > 0
       /\ MatchesAt(s, d + n, MarkerTail)

MarkerNumberAt(s, k) ==
    LET d == k + Len(MarkerHead)
    IN ParseNat(SubSeq(s, d, d + DigitRun(s, d) - 1))

\* the page numbers of the markers found in s, in order of appearance
MarkerPages(s) ==
    LET pos == {k \in 1..Len(s) : MarkerAt(s, k)}
        nth(j) == CHOOSE k \in pos : Cardinality({m \in pos : m < k}) = j - 1
    IN [j \in 1..Cardinality(pos) |-> MarkerNumberAt(s, nth(j))]

\* the marker a reader expects in front of source page n (1-indexed)
ExpectedMarker(n) == MarkerHead \o str(n) \o MarkerTail

RECURSIVE Flatten(_)
Flatten(secs) ==
    IF secs = <<>> THEN <<>>
    ELSE ExpectedMarker(Head(secs).page) \o Head(secs).text \o Flatten(Tail(secs))

SuccessfulOCRSections ==
    LET Test(c) == c.op = "ocr" /\ c.ok
        ok == SelectSeq(trace, Test)
    IN [k \in 1..Len(ok) |-> Section("ocr", ok[k].page, ok[k].text)]

(* ------------------------------ claims --------------------------------- *)

\* C1: when the fallback branch is entered and is_poppler_installed returns
\* false, the upload is not rasterized, no OCR call is made, the final text is
\* empty and the run ends in the failure state.
C1_PreflightFailureLeavesNoText ==
    (pc = "done" /\ Idx("preflight") # {} /\ ~poppler_installed)
        => /\ Idx("rasterize") = {}
           /\ Idx("ocr") = {}
           /\ extracted_text = <<>>
           /\ outcome = "failure"

\* C2: with force-OCR false, when native extraction raised or left a stripped
\* accumulator of length <= 100 (100 included), the preflight is attempted,
\* and before any rasterization or OCR call.
C2_PreflightAtOrBelowThreshold ==
    ( /\ pc = "done"
      /\ ~fallback_all_pages
      /\ \/ nativeState = "raised"
         \/ nativeState = "finished" /\ Len(strip(nativeAcc)) <= Threshold )
        => /\ Idx("preflight") # {}
           /\ \A k \in Idx("rasterize") \cup Idx("ocr") :
                 \E p \in Idx("preflight") : p < k

\* C3: when native extraction ran to its end and its stripped accumulator is
\* longer than 100 characters, the fallback never runs (no preflight, no
\* rasterization, no OCR call) and the text stays exactly the native accumulator.
C3_SufficientNativeNeverFallsBack ==
    (nativeState = "finished" /\ Len(strip(nativeAcc)) > Threshold)
        => /\ trace = <<>>
           /\ pc \notin {"preflight", "rasterize", "ocr"}
           /\ extracted_text = nativeAcc

C3_Witness ==
    /\ pc = "done"
    /\ nativeState = "finished"
    /\ Len(strip(nativeAcc)) > Threshold
    /\ outcome = "result"

\* C4: whenever OCR runs the accumulator is empty before the first OCR page is
\* appended and afterwards holds only the sections of the successful OCR
\* calls, never native text; with force-OCR true native extraction is not
\* invoked and the run goes through the preflight and, when it passes,
\* through rasterization and OCR of every image.
C4_OCRDiscardsNativeText ==
    /\ (pc = "rasterize" \/ Idx("rasterize") # {})
          => /\ extracted_text = Flatten(SuccessfulOCRSections)
             /\ \A k \in 1..Len(sections) : sections[k].src = "ocr"
    /\ (pc = "rasterize" \/ (pc = "ocr" /\ OCRCalls = <<>>))
          => extracted_text = <<>>
    /\ fallback_all_pages
          => /\ nativeState = "skipped"
             /\ pc = "done"
                   => /\ Idx("preflight") # {}
                      /\ poppler_installed => Idx("rasterize") # {}
                      /\ RasterOK => Len(OCRCalls) = numImages

C4_Witness ==
    /\ pc = "done"
    /\ nativeState = "finished"
    /\ nativeAcc # <<>>
    /\ \E k \in Idx("ocr") : trace[k].ok /\ strip(trace[k].text) # <<>>
    /\ outcome = "result"

\* C5: when native extraction ran and kept no text and OCR ran but returned
\* only empty or whitespace-only text for every image, the run ends in the
\* terminal failure state and not in the presented-result state.
C5_NoTextEndsInFailure ==
    ( /\ pc = "done"
      /\ nativeState \in {"finished", "raised"}
      /\ nativeAcc = <<>>
      /\ RasterOK
      /\ \A k \in Idx("ocr") : trace[k].ok /\ strip(trace[k].text) = <<>> )
        => outcome = "failure"

\* C6: on every path the temporary file is created once, exists during the
\* page count probe and native extraction, and its deletion step is executed
\* exactly once, before the result or the failure is presented; a failing
\* deletion is ignored and the run goes on to the presentation.
C6_TempFileLifecycle ==
    /\ tmpCreated = (IF pc = "upload" THEN 0 ELSE 1)
    /\ pc \in {"probe", "native"} => tmpExists
    /\ unlinkCalls = (IF pc \in {"present", "done"} THEN 1 ELSE 0)
    /\ outcome # "none" => unlinkCalls = 1
    /\ pc = "done" => outcome \in {"result", "failure"}
    /\ unlinkFailed => pc \in {"present", "done"}

C6_Witness ==
    /\ pc = "done"
    /\ unlinkFailed
    /\ tmpExists
    /\ \E k \in Idx("ocr") : ~trace[k].ok
    /\ outcome = "result"

\* C7: OCR is attempted on every rasterized image exactly once and in order; a
\* failure on page k is reported with page number k and does not end the
\* loop; the marker and text of every page whose OCR succeeded are in the
\* accumulator whatever happened to the other pages.
C7_PerPageOCRIsolation ==
    /\ \A k \in 1..Len(OCRCalls) : OCRCalls[k].page = k
    /\ pc = "ocr" => Len(OCRCalls) = i
    /\ (RasterOK /\ pc \in {"cleanup", "present", "done"})
          => Len(OCRCalls) = numImages
    /\ Len(OCRErrors) = Len(FailedOCRCalls)
    /\ \A k \in 1..Len(FailedOCRCalls) : OCRErrors[k].page = FailedOCRCalls[k].page
    /\ \A k \in 1..Len(OCRCalls) :
          OCRCalls[k].ok
             => IsSubstring(ExpectedMarker(k) \o OCRCalls[k].text, extracted_text)

C7_Witness ==
    /\ pc = "done"
    /\ Len(OCRCalls) >= 2
    /\ ~OCRCalls[1].ok
    /\ OCRCalls[2].ok
    /\ strip(OCRCalls[2].text) # <<>>

\* C8: create_pdf_from_text returns a non-empty buffer and never raises, for
\* any body text and any title; a body line that cannot be rendered is
\* replaced by the placeholder line.
C8_PdfRenderingNeverRaises ==
    pdf_result.called
        => /\ ~pdf_result.raised
           /\ Len(pdf_result.buf) > 0
           /\ \A k \in 1..Len(split(extracted_text)) :
                 LET line == split(extracted_text)[k]
                 IN (Len(line) > 0 /\ ~Renderable(line))
                       => \E j \in 1..Len(pdf_result.buf) :
                             pdf_result.buf[j] = Placeholder

\* C9: for both strategies the markers in the text carry 1-indexed source page
\* numbers in strictly ascending order without repetition; native extraction
\* emits a marker only for a page with non-blank text, OCR only for a page
\* whose OCR call succeeded, and marker N stands in front of the text of
\* source page N.
C9_MarkersAscendingOneIndexed ==
    LET ms == MarkerPages(extracted_text)
    IN /\ Len(ms) = Len(sections)
       /\ \A k \in 1..Len(ms) :
             /\ ms[k] = sections[k].page
             /\ ms[k] >= 1
             /\ ms[k] <= numPages
             /\ k > 1 => ms[k - 1] < ms[k]
       /\ extracted_text = Flatten(sections)
       /\ \A k \in 1..Len(sections) :
             /\ sections[k].src = "native" => strip(sections[k].text) # <<>>
             /\ sections[k].src = "ocr"
                   => \E c \in Idx("ocr") :
                         /\ trace[c].ok
                         /\ trace[c].page = sections[k].page
                         /\ trace[c].text = sections[k].text

C9_Witness ==
    /\ pc = "done"
    /\ nativeState = "finished"
    /\ trace = <<>>
    /\ MarkerPages(extracted_text) = <<2>>

\* C10: is_poppler_installed returns a boolean without propagating an
\* exception, and whether it returns true or false the probe file it wrote
\* has been deleted by the time it returns.
C10_PreflightLeavesNoProbeFile ==
    Idx("preflight") # {}
        => /\ poppler_installed \in BOOLEAN
           /\ \A k \in Idx("preflight") : trace[k].ok = poppler_installed
           /\ ~testFileExists

====
